---- MODULE Spec2Model ----
(***************************************************************************)
(* A model of esphomeyaml/yaml_util.py: the YAML loader with its custom    *)
(* tags (!include, !include_dir_*, !secret, !env_var, !lambda), the        *)
(* directory scanner and the dumper.                                       *)
(*                                                                         *)
(* Text is a sequence of one-character strings, a path is a sequence of    *)
(* names (the text between the separators), a node of a loaded tree is a   *)
(* record [kind, s, items].  The recursion of load_yaml through the tag    *)
(* handlers is an explicit stack of frames, one per active load_yaml call. *)
(***************************************************************************)
EXTENDS Integers, Sequences, FiniteSets, TLC

\* The deepest nesting of load_yaml calls the host allows before it gives up
\* (the interpreter's recursion limit).
MaxDepth == 6

----------------------------------------------------------------------------
\* Text and paths

Ext == <<".", "y", "a", "m", "l">>

Y(base) == base \o Ext

SECRET_YAML == <<"s", "e", "c", "r", "e", "t", "s">> \o Ext

YAML_PATTERN == <<"*">> \o Ext

NoPath == <<>>

\* os.path.dirname / os.path.basename / os.path.join on relative paths
dirname(path) == IF path = <<>> THEN <<>> ELSE SubSeq(path, 1, Len(path) - 1)

basename(path) == IF path = <<>> THEN <<>> ELSE path[Len(path)]

join(dir, rel) == dir \o rel

\* os.path.splitext(...)[0]: the name up to its last dot, leading dots kept
RECURSIVE LastDot(_, _)
LastDot(name, i) ==
    IF i = 0 THEN 0
    ELSE IF name[i] = "." THEN i
    ELSE LastDot(name, i - 1)

RECURSIVE LeadingDots(_)
LeadingDots(name) ==
    IF name = <<>> \/ Head(name) # "." THEN 0 ELSE 1 + LeadingDots(Tail(name))

splitext(name) ==
    LET d == LastDot(name, Len(name))
    IN IF d > LeadingDots(name) THEN SubSeq(name, 1, d - 1) ELSE name

\* fnmatch.fnmatch on a POSIX host: case-sensitive, * and ? only, a leading
\* dot is an ordinary character
RECURSIVE fnmatch(_, _)
fnmatch(name, pat) ==
    IF pat = <<>> THEN name = <<>>
    ELSE IF Head(pat) = "*"
         THEN \/ fnmatch(name, Tail(pat))
              \/ name # <<>> /\ fnmatch(Tail(name), pat)
    ELSE /\ name # <<>>
         /\ Head(pat) = "?" \/ Head(pat) = Head(name)
         /\ fnmatch(Tail(name), Tail(pat))

Reverse(s) == [i \in 1..Len(s) |-> s[Len(s) + 1 - i]]

RECURSIVE Concat(_)
Concat(ss) == IF ss = <<>> THEN <<>> ELSE Head(ss) \o Concat(Tail(ss))

----------------------------------------------------------------------------
\* Nodes of a loaded tree

NullNode == [kind |-> "null", s |-> <<>>, items |-> <<>>]

StrNode(text) == [kind |-> "str", s |-> text, items |-> <<>>]

IntNode(text) == [kind |-> "int", s |-> text, items |-> <<>>]

LambdaNode(text) == [kind |-> "lambda", s |-> text, items |-> <<>>]

MapNode(entries) == [kind |-> "map", s |-> <<>>, items |-> entries]

ListNode(entries) == [kind |-> "list", s |-> <<>>, items |-> entries]

Entry(key, value) == [k |-> key, v |-> value]

Item(value) == [k |-> <<>>, v |-> value]

EmptyMap == MapNode(<<>>)

Keys(entries) == {entries[i].k : i \in 1..Len(entries)}

\* Python truth value of a loaded document
Falsy(node) ==
    \/ node.kind = "null"
    \/ node.kind \in {"map", "list"} /\ node.items = <<>>
    \/ node.kind = "str" /\ node.s = <<>>
    \/ node.kind = "int" /\ node.s = <<"0">>

----------------------------------------------------------------------------
\* Raw documents: what the base parser sees in a file before the tags are
\* resolved.  kind "bad" is a document the parser rejects (YAMLError), kind
\* "binary" one that is not UTF-8 (UnicodeDecodeError).  An entry of a raw
\* mapping or sequence is a literal node (tag "") or a tagged scalar whose
\* text is arg: a relative path for the include tags, a one-name path for
\* !secret, !env_var and !lambda.

Lit(key, value) == [k |-> key, tag |-> "", arg |-> <<>>, v |-> value]

Tagged(key, t, a) == [k |-> key, tag |-> t, arg |-> a, v |-> NullNode]

RawScalar(node) == [kind |-> node.kind, s |-> node.s, items |-> <<>>]

RawMap(entries) == [kind |-> "map", s |-> <<>>, items |-> entries]

RawList(entries) == [kind |-> "list", s |-> <<>>, items |-> entries]

RawNull == [kind |-> "null", s |-> <<>>, items |-> <<>>]

RawBad == [kind |-> "bad", s |-> <<>>, items |-> <<>>]

RawBinary == [kind |-> "binary", s |-> <<>>, items |-> <<>>]

\* Names used by the file system below
nA == <<"A">>
nB == <<"B">>
nC == <<"C">>
nD == <<"D">>
nE == <<"E">>
nF == <<"F">>
nSub == <<"s", "u", "b">>
nDeep == <<"d", "e", "e", "p">>
nGit == <<".", "g", "i", "t">>
nNone == <<"n", "o", "n", "e">>
nLocked == <<"l", "o", "c", "k">>
nTxt == <<"n", ".", "t", "x", "t">>
nHidden == <<".">> \o Y(<<"h">>)
nPw == <<"p", "w">>
nNope == <<"n", "o">>
nHome == <<"H", "O", "M", "E">>
nUnset == <<"U">>

\* os.environ
Environ == (nHome :> <<"/", "r">>)

\* The directories of the host: the names os.listdir gives for each, split
\* into sub-directories and files.  A/lock exists and cannot be read.
Dirs ==
    (<<>> :> [dirs |-> <<nA, nB, nC, nF>>, files |-> <<>>]) @@
    (<<nA>> :> [dirs |-> <<nSub, nD, nE, nLocked>>,
                files |-> <<Y(<<"r">>), Y(<<"c">>), SECRET_YAML, Y(<<"s">>),
                            Y(<<"d">>), Y(<<"e">>), Y(<<"m">>), Y(<<"v">>),
                            Y(<<"p">>), Y(<<"u">>)>>]) @@
    (<<nA, nSub>> :> [dirs |-> <<>>, files |-> <<Y(<<"b">>), Y(<<"c">>)>>]) @@
    (<<nA, nD>> :> [dirs |-> <<nGit, nDeep>>,
                    files |-> <<Y(<<"a">>), nHidden, Y(<<"b">>), SECRET_YAML,
                                Y(<<"l">>), Y(<<"e">>), nTxt>>]) @@
    (<<nA, nD, nGit>> :> [dirs |-> <<>>, files |-> <<Y(<<"g">>)>>]) @@
    (<<nA, nD, nDeep>> :> [dirs |-> <<>>, files |-> <<SECRET_YAML, Y(<<"w">>)>>]) @@
    (<<nA, nE>> :> [dirs |-> <<>>,
                    files |-> <<Y(<<"a">>), Y(<<"b">>), Y(<<"z">>)>>]) @@
    (<<nA, nLocked>> :> [dirs |-> <<>>, files |-> <<Y(<<"a">>)>>]) @@
    (<<nB>> :> [dirs |-> <<>>,
                files |-> <<Y(<<"r">>), Y(<<"c">>), SECRET_YAML>>]) @@
    (<<nC>> :> [dirs |-> <<>>, files |-> <<Y(<<"r">>), SECRET_YAML>>]) @@
    (<<nF>> :> [dirs |-> <<>>, files |-> <<Y(<<"r">>), SECRET_YAML>>])

Unreadable == {<<nA, nLocked>>}

\* The files of the host and the document each holds
Files ==
    \* A/r.yaml: b: !include sub/b.yaml, n: (null), t: x
    (<<nA, Y(<<"r">>)>> :>
        RawMap(<<Tagged(<<"b">>, "!include", <<nSub, Y(<<"b">>)>>),
                 Lit(<<"n">>, NullNode),
                 Lit(<<"t">>, MapNode(<<Entry(<<"o">>, NullNode),
                                        Entry(<<"q">>, StrNode(<<"x">>))>>))>>)) @@
    (<<nA, Y(<<"c">>)>> :> RawScalar(StrNode(<<"t", "o", "p">>))) @@
    (<<nA, SECRET_YAML>> :> RawMap(<<Lit(nPw, StrNode(<<"a">>))>>)) @@
    \* A/s.yaml includes itself
    (<<nA, Y(<<"s">>)>> :>
        RawMap(<<Lit(<<"k">>, StrNode(<<"1">>)),
                 Tagged(<<"s">>, "!include", <<Y(<<"s">>)>>)>>)) @@
    \* A/d.yaml: the four directory tags over A/D
    (<<nA, Y(<<"d">>)>> :>
        RawMap(<<Tagged(<<"n">>, "!include_dir_named", <<nD>>),
                 Tagged(<<"m">>, "!include_dir_merge_named", <<nD>>),
                 Tagged(<<"l">>, "!include_dir_list", <<nD>>),
                 Tagged(<<"f">>, "!include_dir_merge_list", <<nD>>)>>)) @@
    \* A/e.yaml: a directory with a malformed file in it
    (<<nA, Y(<<"e">>)>> :>
        RawList(<<Lit(<<>>, StrNode(<<"1">>)),
                  Tagged(<<>>, "!include_dir_merge_list", <<nE>>)>>)) @@
    \* A/m.yaml: the four directory tags over a missing and an unreadable one
    (<<nA, Y(<<"m">>)>> :>
        RawMap(<<Tagged(<<"n">>, "!include_dir_named", <<nNone>>),
                 Tagged(<<"m">>, "!include_dir_merge_named", <<nLocked>>),
                 Tagged(<<"l">>, "!include_dir_list", <<nNone>>),
                 Tagged(<<"f">>, "!include_dir_merge_list", <<nLocked>>)>>)) @@
    \* A/v.yaml: environment variables and a lambda
    (<<nA, Y(<<"v">>)>> :>
        RawMap(<<Tagged(<<"h">>, "!env_var", <<nHome>>),
                 Tagged(<<"l">>, "!lambda", <<<<"r", ";">>>>),
                 Tagged(<<"u">>, "!env_var", <<nUnset>>)>>)) @@
    \* A/p.yaml: secrets
    (<<nA, Y(<<"p">>)>> :>
        RawMap(<<Tagged(<<"p">>, "!secret", <<nPw>>),
                 Tagged(<<"q">>, "!secret", <<nNope>>)>>)) @@
    (<<nA, Y(<<"u">>)>> :> RawBinary) @@
    (<<nA, nSub, Y(<<"b">>)>> :>
        RawMap(<<Tagged(<<"c">>, "!include", <<Y(<<"c">>)>>)>>)) @@
    (<<nA, nSub, Y(<<"c">>)>> :> RawScalar(StrNode(<<"n", "e", "s", "t">>))) @@
    (<<nA, nD, Y(<<"a">>)>> :>
        RawMap(<<Lit(<<"x">>, StrNode(<<"1">>)), Lit(<<"z">>, StrNode(<<"1">>))>>)) @@
    (<<nA, nD, nHidden>> :> RawMap(<<Lit(<<"h">>, StrNode(<<"1">>))>>)) @@
    (<<nA, nD, Y(<<"b">>)>> :>
        RawMap(<<Lit(<<"y">>, StrNode(<<"2">>)), Lit(<<"x">>, StrNode(<<"2">>))>>)) @@
    (<<nA, nD, SECRET_YAML>> :> RawMap(<<Lit(nPw, StrNode(<<"d">>))>>)) @@
    (<<nA, nD, Y(<<"l">>)>> :>
        RawList(<<Lit(<<>>, StrNode(<<"i">>)), Lit(<<>>, StrNode(<<"j">>))>>)) @@
    (<<nA, nD, Y(<<"e">>)>> :> RawNull) @@
    (<<nA, nD, nTxt>> :> RawScalar(StrNode(<<"t">>))) @@
    (<<nA, nD, nGit, Y(<<"g">>)>> :> RawMap(<<Lit(<<"g">>, StrNode(<<"1">>))>>)) @@
    (<<nA, nD, nDeep, SECRET_YAML>> :>
        RawList(<<Lit(<<>>, StrNode(<<"k", "e", "y">>))>>)) @@
    (<<nA, nD, nDeep, Y(<<"w">>)>> :> RawScalar(IntNode(<<"0">>))) @@
    (<<nA, nE, Y(<<"a">>)>> :> RawList(<<Lit(<<>>, StrNode(<<"a">>))>>)) @@
    (<<nA, nE, Y(<<"b">>)>> :> RawBad) @@
    (<<nA, nE, Y(<<"z">>)>> :> RawList(<<Lit(<<>>, StrNode(<<"z">>))>>)) @@
    (<<nA, nLocked, Y(<<"a">>)>> :> RawMap(<<Lit(<<"x">>, StrNode(<<"1">>))>>)) @@
    \* B/r.yaml: p: !secret pw, i: !include c.yaml
    (<<nB, Y(<<"r">>)>> :>
        RawMap(<<Tagged(<<"p">>, "!secret", <<nPw>>),
                 Tagged(<<"i">>, "!include", <<Y(<<"c">>)>>)>>)) @@
    (<<nB, Y(<<"c">>)>> :> RawNull) @@
    (<<nB, SECRET_YAML>> :> RawMap(<<Lit(nPw, StrNode(<<"b">>))>>)) @@
    \* C/r.yaml: p: !secret pw, with a secrets.yaml that holds the scalar 5
    (<<nC, Y(<<"r">>)>> :> RawMap(<<Tagged(<<"p">>, "!secret", <<nPw>>)>>)) @@
    (<<nC, SECRET_YAML>> :> RawScalar(IntNode(<<"5">>))) @@
    \* F/r.yaml: p: !secret pw, with an empty secrets.yaml
    (<<nF, Y(<<"r">>)>> :> RawMap(<<Tagged(<<"p">>, "!secret", <<nPw>>)>>)) @@
    (<<nF, SECRET_YAML>> :> RawNull)

\* The files a caller passes to load_yaml: the configurations of A, B, C and
\* F, an empty document, and A/g.yaml, which does not exist
Roots ==
    {<<nA, f>> : f \in {Y(<<"r">>), Y(<<"s">>), Y(<<"d">>), Y(<<"e">>), Y(<<"m">>),
                        Y(<<"v">>), Y(<<"p">>), Y(<<"u">>), Y(<<"g">>)}}
    \cup {<<nB, Y(<<"r">>)>>, <<nC, Y(<<"r">>)>>, <<nF, Y(<<"r">>)>>,
          <<nA, nD, Y(<<"e">>)>>}

----------------------------------------------------------------------------
\* The directory scanner

\* _is_file_valid, and the variant of it that lets dot-names through
IsFileValidHidden(name) == TRUE

_is_file_valid(name) == ~(name # <<>> /\ Head(name) = ".")

\* The order in which os.listdir gives the names of a directory is the
\* host's: the listing as stored, or its reverse.
Listing(names, rev) == IF rev THEN Reverse(names) ELSE names

\* os.walk(directory, topdown=True) is called without onerror: a directory
\* that is missing or cannot be listed is skipped silently.
Listable(directory) == directory \in DOMAIN Dirs /\ directory \notin Unreadable

\* _find_files: the matching files of root, then those of each kept
\* sub-directory
RECURSIVE FindIn(_, _, _)
FindIn(root, pattern, rev) ==
    IF ~Listable(root) THEN <<>>
    ELSE LET dirs == SelectSeq(Listing(Dirs[root].dirs, rev), _is_file_valid)
             Keep(b) == _is_file_valid(b) /\ fnmatch(b, pattern)
             files == SelectSeq(Listing(Dirs[root].files, rev), Keep)
         IN [i \in 1..Len(files) |-> join(root, <<files[i]>>)]
            \o Concat([i \in 1..Len(dirs) |-> FindIn(join(root, <<dirs[i]>>), pattern, rev)])

_find_files(directory, pattern, rev) == FindIn(directory, pattern, rev)

----------------------------------------------------------------------------
\* Ordered mappings and the handlers' loop bodies

\* mapping[key] = value on an OrderedDict: a known key keeps its place
SetItem(entries, key, value) ==
    IF key \in Keys(entries)
    THEN [i \in 1..Len(entries) |->
            IF entries[i].k = key THEN Entry(key, value) ELSE entries[i]]
    ELSE Append(entries, Entry(key, value))

\* OrderedDict.update
RECURSIVE update(_, _)
update(entries, other) ==
    IF other = <<>> THEN entries
    ELSE update(SetItem(entries, Head(other).k, Head(other).v), Tail(other))

GetItem(entries, key) ==
    LET i == CHOOSE j \in 1..Len(entries) : entries[j].k = key
    IN entries[i].v

DirTags == {"!include_dir_named", "!include_dir_merge_named",
            "!include_dir_list", "!include_dir_merge_list"}

\* The files each directory handler passes over without loading
NamedSkips(fname) == FALSE

MergeNamedSkips(fname) == basename(fname) = SECRET_YAML

ListSkips(fname) == basename(fname) = SECRET_YAML

MergeListSkips(fname) == basename(fname) = SECRET_YAML

Skips(tag, fname) ==
    CASE tag = "!include_dir_named" -> NamedSkips(fname)
      [] tag = "!include_dir_merge_named" -> MergeNamedSkips(fname)
      [] tag = "!include_dir_list" -> ListSkips(fname)
      [] tag = "!include_dir_merge_list" -> MergeListSkips(fname)

\* What each directory handler does with a loaded document
NamedAbsorb(mapping, fname, loaded) ==
    SetItem(mapping, splitext(basename(fname)), loaded)

\* (the variant of the merge in which a key keeps its first value)
MergeNamedAbsorbKeepFirst(mapping, fname, loaded) ==
    IF loaded.kind = "map"
    THEN update(loaded.items, mapping)
    ELSE mapping

MergeNamedAbsorb(mapping, fname, loaded) ==
    IF loaded.kind = "map"
    THEN update(mapping, loaded.items)
    ELSE mapping

ListAbsorb(list, fname, loaded) == Append(list, Item(loaded))

MergeListAbsorb(merged_list, fname, loaded) ==
    IF loaded.kind = "list"
    THEN merged_list \o loaded.items
    ELSE merged_list

Absorb(tag, acc, fname, loaded) ==
    CASE tag = "!include_dir_named" -> NamedAbsorb(acc, fname, loaded)
      [] tag = "!include_dir_merge_named" -> MergeNamedAbsorb(acc, fname, loaded)
      [] tag = "!include_dir_list" -> ListAbsorb(acc, fname, loaded)
      [] tag = "!include_dir_merge_list" -> MergeListAbsorb(acc, fname, loaded)

\* The container a directory handler returns
DirValue(tag, acc) ==
    IF tag \in {"!include_dir_named", "!include_dir_merge_named"}
    THEN MapNode(acc)
    ELSE ListNode(acc)

\* load_yaml's "or OrderedDict()", and the variant without it
OrEmptyKeepNone(loaded) == loaded

OrEmpty(loaded) == IF Falsy(loaded) THEN EmptyMap ELSE loaded

\* _secret_yaml after the secrets document is loaded: "node.value not in
\* secrets" and "secrets[node.value]" on whatever kind of document it is
IsSubstring(key, text) ==
    \E i \in 0..(Len(text) - Len(key)) : SubSeq(text, i + 1, i + Len(key)) = key

SecretLookup(secrets, key) ==
    CASE secrets.kind = "map" ->
            IF key \in Keys(secrets.items)
            THEN [outcome |-> "value", v |-> GetItem(secrets.items, key)]
            ELSE [outcome |-> "EsphomeyamlError", v |-> NullNode]
      [] secrets.kind = "list" ->
            IF \E i \in 1..Len(secrets.items) : secrets.items[i].v = StrNode(key)
            THEN [outcome |-> "TypeError", v |-> NullNode]
            ELSE [outcome |-> "EsphomeyamlError", v |-> NullNode]
      [] secrets.kind = "str" ->
            IF IsSubstring(key, secrets.s)
            THEN [outcome |-> "TypeError", v |-> NullNode]
            ELSE [outcome |-> "EsphomeyamlError", v |-> NullNode]
      [] OTHER -> [outcome |-> "TypeError", v |-> NullNode]

----------------------------------------------------------------------------
\* State

VARIABLES
    name,       \* ExtRoundTripConstructor.name, NoPath while the class has none
    stack,      \* the active load_yaml calls, the outermost first
    status,     \* "idle", "running", "returned" or "raised": the top-level call
    err,        \* the exception the top-level call raised
    cause,      \* where it was raised: "io", "decode", "parse", "env", "secret", "depth"
    result,     \* the tree the top-level call returned
    root,       \* the file the top-level call was given
    res,        \* the last relative path a handler resolved
    ret,        \* the last directory handler's return
    lret,       \* the last load_yaml return
    scan,       \* the last _find_files call
    revisited,  \* load_yaml was called on a file that an active call is loading
    out         \* the last dump

vars == <<name, stack, status, err, cause, result, root, res, ret, lret, scan,
          revisited, out>>

NoH == [tag |-> "", k |-> <<>>, loc |-> <<>>, scanned |-> <<>>, files |-> <<>>,
        docs |-> <<>>, acc |-> <<>>]

NoRes == [tag |-> "", from |-> <<>>, base |-> <<>>, target |-> <<>>]

NoRet == [tag |-> "", loc |-> <<>>, scanned |-> <<>>, docs |-> <<>>,
          value |-> NullNode]

NoLret == [fname |-> <<>>, raw |-> "", value |-> EmptyMap]

NoScan == [called |-> FALSE, directory |-> <<>>, pattern |-> <<>>, files |-> <<>>]

\* The frame of a load_yaml call that has opened and parsed fname
NewFrame(fname) ==
    [fname |-> fname, kind |-> Files[fname].kind, s |-> Files[fname].s,
     todo |-> Files[fname].items, acc |-> <<>>, h |-> NoH]

Top == stack[Len(stack)]

Active(stk) == {stk[i].fname : i \in 1..Len(stk)}

\* load_yaml, lines 50-59: what opening, decoding and parsing fname comes to
\* (and the variant that refuses a file an active call is loading)
LoadOutcomeGuarded(fname, stk) ==
    IF fname \notin DOMAIN Files \/ fname \in Active(stk) THEN "IOError"
    ELSE IF Files[fname].kind = "binary" THEN "UnicodeDecodeError"
    ELSE IF Files[fname].kind = "bad" THEN "YAMLError"
    ELSE "parsed"

LoadOutcome(fname, stk) ==
    IF fname \notin DOMAIN Files THEN "IOError"
    ELSE IF Files[fname].kind = "binary" THEN "UnicodeDecodeError"
    ELSE IF Files[fname].kind = "bad" THEN "YAMLError"
    ELSE "parsed"

CauseOf(outcome) ==
    CASE outcome = "IOError" -> "io"
      [] outcome = "UnicodeDecodeError" -> "decode"
      [] outcome = "YAMLError" -> "parse"

\* An exception leaves every active call
Raise(kind, why) ==
    /\ status' = "raised"
    /\ err' = kind
    /\ cause' = why
    /\ stack' = <<>>
    /\ result' = NullNode

\* A call of load_yaml(fname) made with the calls of stk active
EnterLoad(fname, stk) ==
    /\ name' = IF name = NoPath THEN fname ELSE name
    /\ revisited' = (revisited \/ fname \in Active(stk))
    /\ IF Len(stk) >= MaxDepth
       THEN Raise("RecursionError", "depth")
       ELSE IF LoadOutcome(fname, stk) # "parsed"
       THEN Raise("EsphomeyamlError", CauseOf(LoadOutcome(fname, stk)))
       ELSE /\ stack' = Append(stk, NewFrame(fname))
            /\ UNCHANGED <<status, err, cause, result>>

\* The stack with its top frame replaced
WithTop(frame) == [stack EXCEPT ![Len(stack)] = frame]

\* The top frame with the entry it was resolving done
Resolved(frame, value) ==
    [frame EXCEPT !.todo = Tail(frame.todo),
                  !.acc = Append(frame.acc, Entry(Head(frame.todo).k, value)),
                  !.h = NoH]

\* The directory a handler resolves against: os.path.dirname(constructor.name),
\* where constructor.name is the attribute of the class
Base == dirname(name)

Constructing ==
    /\ status = "running"
    /\ stack # <<>>
    /\ Top.h.tag = ""
    /\ Top.todo # <<>>

Init ==
    /\ name = NoPath
    /\ stack = <<>>
    /\ status = "idle"
    /\ err = ""
    /\ cause = ""
    /\ result = NullNode
    /\ root = NoPath
    /\ res = NoRes
    /\ ret = NoRet
    /\ lret = NoLret
    /\ scan = NoScan
    /\ revisited = FALSE
    /\ out = <<>>

\* A caller calls load_yaml(fname)
load_yaml(fname) ==
    /\ status # "running"
    /\ root' = fname
    /\ res' = NoRes
    /\ ret' = NoRet
    /\ lret' = NoLret
    /\ scan' = NoScan
    /\ out' = <<>>
    /\ name' = IF name = NoPath THEN fname ELSE name
    /\ revisited' = FALSE
    /\ IF LoadOutcome(fname, <<>>) # "parsed"
       THEN Raise("EsphomeyamlError", CauseOf(LoadOutcome(fname, <<>>)))
       ELSE /\ stack' = <<NewFrame(fname)>>
            /\ status' = "running"
            /\ err' = ""
            /\ cause' = ""
            /\ result' = NullNode

\* The constructor reaches an entry that carries no custom tag
ConstructPlain ==
    /\ Constructing
    /\ Head(Top.todo).tag = ""
    /\ stack' = WithTop(Resolved(Top, Head(Top.todo).v))
    /\ UNCHANGED <<name, status, err, cause, result, root, res, ret, lret, scan,
                   revisited, out>>

\* _lambda: the text of the node, kept as it is
_lambda ==
    /\ Constructing
    /\ Head(Top.todo).tag = "!lambda"
    /\ stack' = WithTop(Resolved(Top, LambdaNode(Head(Top.todo).arg[1])))
    /\ UNCHANGED <<name, status, err, cause, result, root, res, ret, lret, scan,
                   revisited, out>>

\* _env_var_yaml
_env_var_yaml ==
    /\ Constructing
    /\ Head(Top.todo).tag = "!env_var"
    /\ LET var == Head(Top.todo).arg[1]
       IN IF var \notin DOMAIN Environ
          THEN Raise("EsphomeyamlError", "env")
          ELSE /\ stack' = WithTop(Resolved(Top, StrNode(Environ[var])))
               /\ UNCHANGED <<status, err, cause, result>>
    /\ UNCHANGED <<name, root, res, ret, lret, scan, revisited, out>>

\* _include_yaml up to its call of load_yaml
_include_yaml ==
    /\ Constructing
    /\ Head(Top.todo).tag = "!include"
    /\ LET e == Head(Top.todo)
           fname == join(Base, e.arg)
       IN /\ res' = [tag |-> e.tag, from |-> Top.fname, base |-> Base,
                     target |-> fname]
          /\ EnterLoad(fname, WithTop([Top EXCEPT !.h = [NoH EXCEPT !.tag = e.tag]]))
    /\ UNCHANGED <<root, ret, lret, scan, out>>

\* _secret_yaml up to its call of load_yaml
_secret_yaml ==
    /\ Constructing
    /\ Head(Top.todo).tag = "!secret"
    /\ LET e == Head(Top.todo)
           secret_path == join(Base, <<SECRET_YAML>>)
       IN /\ res' = [tag |-> e.tag, from |-> Top.fname, base |-> Base,
                     target |-> secret_path]
          /\ EnterLoad(secret_path,
                       WithTop([Top EXCEPT !.h = [NoH EXCEPT !.tag = e.tag]]))
    /\ UNCHANGED <<root, ret, lret, scan, out>>

\* The four _include_dir_*_yaml handlers up to the start of their loop: the
\* location is resolved and _find_files(loc, '*.yaml') is started
_include_dir_scan ==
    /\ Constructing
    /\ Head(Top.todo).tag \in DirTags
    /\ \E rev \in BOOLEAN :
        LET e == Head(Top.todo)
            loc == join(Base, e.arg)
            files == _find_files(loc, YAML_PATTERN, rev)
        IN /\ res' = [tag |-> e.tag, from |-> Top.fname, base |-> Base,
                      target |-> loc]
           /\ scan' = [called |-> TRUE, directory |-> loc,
                       pattern |-> YAML_PATTERN, files |-> files]
           /\ stack' = WithTop([Top EXCEPT !.h =
                    [tag |-> e.tag, k |-> e.k, loc |-> loc,
                     scanned |-> files, files |-> files,
                     docs |-> <<>>, acc |-> <<>>]])
    /\ UNCHANGED <<name, status, err, cause, result, root, ret, lret, revisited,
                   out>>

\* One turn of a directory handler's loop: the next file is passed over or
\* load_yaml is called on it
_include_dir_next ==
    /\ status = "running"
    /\ stack # <<>>
    /\ Top.h.tag \in DirTags
    /\ Top.h.files # <<>>
    /\ LET fname == Head(Top.h.files)
           rest == WithTop([Top EXCEPT !.h.files = Tail(Top.h.files)])
       IN IF Skips(Top.h.tag, fname)
          THEN /\ stack' = rest
               /\ UNCHANGED <<name, status, err, cause, result, revisited>>
          ELSE EnterLoad(fname, rest)
    /\ UNCHANGED <<root, res, ret, lret, scan, out>>

\* A directory handler's loop is over: it returns its mapping or list
_include_dir_return ==
    /\ status = "running"
    /\ stack # <<>>
    /\ Top.h.tag \in DirTags
    /\ Top.h.files = <<>>
    /\ LET value == DirValue(Top.h.tag, Top.h.acc)
       IN /\ ret' = [tag |-> Top.h.tag, loc |-> Top.h.loc,
                     scanned |-> Top.h.scanned, docs |-> Top.h.docs,
                     value |-> value]
          /\ stack' = WithTop(Resolved(Top, value))
    /\ UNCHANGED <<name, status, err, cause, result, root, res, lret, scan,
                   revisited, out>>

\* load_yaml returns (line 52) to the handler that called it, or to the caller
Returning ==
    /\ status = "running"
    /\ stack # <<>>
    /\ Top.h.tag = ""
    /\ Top.todo = <<>>

Loaded == OrEmpty([kind |-> Top.kind, s |-> Top.s, items |-> Top.acc])

Callers == SubSeq(stack, 1, Len(stack) - 1)

Caller == stack[Len(stack) - 1]

load_yaml_return ==
    /\ Returning
    /\ Len(stack) = 1
    /\ lret' = [fname |-> Top.fname, raw |-> Files[Top.fname].kind, value |-> Loaded]
    /\ status' = "returned"
    /\ result' = Loaded
    /\ stack' = <<>>
    /\ UNCHANGED <<name, err, cause, root, res, ret, scan, revisited, out>>

\* _include_yaml returns what load_yaml returned
_include_yaml_return ==
    /\ Returning
    /\ Len(stack) > 1
    /\ Caller.h.tag = "!include"
    /\ lret' = [fname |-> Top.fname, raw |-> Files[Top.fname].kind, value |-> Loaded]
    /\ stack' = [Callers EXCEPT ![Len(Callers)] = Resolved(Caller, Loaded)]
    /\ UNCHANGED <<name, status, err, cause, result, root, res, ret, scan,
                   revisited, out>>

\* _secret_yaml looks the key up in what load_yaml returned
_secret_yaml_return ==
    /\ Returning
    /\ Len(stack) > 1
    /\ Caller.h.tag = "!secret"
    /\ lret' = [fname |-> Top.fname, raw |-> Files[Top.fname].kind, value |-> Loaded]
    /\ LET found == SecretLookup(Loaded, Head(Caller.todo).arg[1])
       IN IF found.outcome = "value"
          THEN /\ stack' = [Callers EXCEPT ![Len(Callers)] = Resolved(Caller, found.v)]
               /\ UNCHANGED <<status, err, cause, result>>
          ELSE Raise(found.outcome, "secret")
    /\ UNCHANGED <<name, root, res, ret, scan, revisited, out>>

\* A directory handler takes what load_yaml returned into its mapping or list
_include_dir_loaded ==
    /\ Returning
    /\ Len(stack) > 1
    /\ Caller.h.tag \in DirTags
    /\ lret' = [fname |-> Top.fname, raw |-> Files[Top.fname].kind, value |-> Loaded]
    /\ stack' = [Callers EXCEPT ![Len(Callers)] =
                    [Caller EXCEPT
                        !.h.acc = Absorb(Caller.h.tag, Caller.h.acc, Top.fname, Loaded),
                        !.h.docs = Append(Caller.h.docs,
                                          [f |-> Top.fname, v |-> Loaded])]]
    /\ UNCHANGED <<name, status, err, cause, result, root, res, ret, scan,
                   revisited, out>>

----------------------------------------------------------------------------
\* dump: the tree goes to the base serializer as it is.  The output is the
\* sequence of its lines; a line is the key path of the entry it renders (a
\* sequence item's key is "-" and its position) and the text after the key.

Digit(i) == <<"0", "1", "2", "3", "4", "5", "6", "7", "8", "9">>[i + 1]

\* The text the round-trip representer gives a scalar or an empty container
\* below the root
ScalarText(node) ==
    CASE node.kind = "null" -> <<>>
      [] node.kind = "str" -> IF node.s = <<>> THEN <<"'", "'">> ELSE node.s
      [] node.kind = "int" -> node.s
      [] node.kind = "lambda" -> <<"!lambda", "|">> \o node.s
      [] node.kind = "map" -> <<"{", "}">>
      [] node.kind = "list" -> <<"[", "]">>

IsBlock(node) == node.kind \in {"map", "list"} /\ node.items # <<>>

LineKey(node, i) ==
    IF node.kind = "map" THEN node.items[i].k ELSE <<"-", Digit(i)>>

RECURSIVE DumpBlock(_, _)
DumpBlock(node, path) ==
    Concat([i \in 1..Len(node.items) |->
        LET p == Append(path, LineKey(node, i))
            v == node.items[i].v
        IN IF IsBlock(v)
           THEN <<[path |-> p, text |-> <<>>]>> \o DumpBlock(v, p)
           ELSE <<[path |-> p, text |-> ScalarText(v)]>>])

dump(dict_) ==
    IF IsBlock(dict_) THEN DumpBlock(dict_, <<>>)
    ELSE IF dict_.kind = "null"
         THEN <<[path |-> <<>>, text |-> <<"n", "u", "l", "l">>]>>
    ELSE <<[path |-> <<>>, text |-> ScalarText(dict_)]>>

\* A caller dumps the tree load_yaml returned
Dump ==
    /\ status = "returned"
    /\ out = <<>>
    /\ out' = dump(result)
    /\ UNCHANGED <<name, stack, status, err, cause, result, root, res, ret, lret,
                   scan, revisited>>

\* A caller runs _find_files on a directory and a pattern of its own
ScanDirs == {<<nA>>, <<nA, nD>>, <<nA, nNone>>, <<nA, nLocked>>}

ScanPatterns == {<<"*">>, <<".", "*">>, YAML_PATTERN, <<"?", ".", "*">>}

FindFilesCall(directory, pattern) ==
    /\ status = "idle"
    /\ \E rev \in BOOLEAN :
         scan' = [called |-> TRUE, directory |-> directory, pattern |-> pattern,
                  files |-> _find_files(directory, pattern, rev)]
    /\ UNCHANGED <<name, stack, status, err, cause, result, root, res, ret, lret,
                   revisited, out>>

----------------------------------------------------------------------------
\* The specification

\* The steps of a running load_yaml call
Step ==
    \/ ConstructPlain
    \/ _lambda
    \/ _env_var_yaml
    \/ _include_yaml
    \/ _secret_yaml
    \/ _include_dir_scan
    \/ _include_dir_next
    \/ _include_dir_return
    \/ load_yaml_return
    \/ _include_yaml_return
    \/ _secret_yaml_return
    \/ _include_dir_loaded

Next ==
    \/ \E fname \in Roots : load_yaml(fname)
    \/ ConstructPlain
    \/ _lambda
    \/ _env_var_yaml
    \/ _include_yaml
    \/ _secret_yaml
    \/ _include_dir_scan
    \/ _include_dir_next
    \/ _include_dir_return
    \/ load_yaml_return
    \/ _include_yaml_return
    \/ _secret_yaml_return
    \/ _include_dir_loaded
    \/ Dump
    \/ \E directory \in ScanDirs, pattern \in ScanPatterns :
            FindFilesCall(directory, pattern)

Spec == Init /\ [][Next]_vars

\* The interpreter runs a call that has started until it returns or raises
FairSpec == Spec /\ WF_vars(Step)

----------------------------------------------------------------------------
\* Properties

\* C1: a relative path is resolved against the directory of the file that
\* holds the directive, at every depth of an include chain.  Stated for the
\* first root a process loads (name = root), where no earlier load can be
\* what decides the directory: A/r.yaml includes sub/b.yaml, and the include
\* of c.yaml in A/sub/b.yaml must resolve against A/sub.
C1_ResolvedAgainstContainingFile ==
    (res.tag # "" /\ name = root) => res.base = dirname(res.from)

\* C2: the load context is not shared between top-level loads: the
\* directives of a root file are resolved against that root file's own
\* directory, whatever was loaded before.
C2_RootResolvedAgainstOwnDirectory ==
    (res.tag # "" /\ res.from = root) => res.base = dirname(root)

\* The document a file without tags loads as
LiteralDoc(fname) ==
    LET raw == Files[fname]
    IN OrEmpty([kind |-> raw.kind, s |-> raw.s,
                items |-> [i \in 1..Len(raw.items) |->
                              Entry(raw.items[i].k, raw.items[i].v)]])

\* value holds a key derived from the file, the file's document or one of
\* the document's entries
HoldsFile(value, fname) ==
    \/ value.kind = "map" /\ splitext(basename(fname)) \in Keys(value.items)
    \/ \E i \in 1..Len(value.items) :
          \/ value.items[i].v = LiteralDoc(fname)
          \/ \E j \in 1..Len(LiteralDoc(fname).items) :
                value.items[i] = LiteralDoc(fname).items[j]

\* C3: what a directory directive returns holds no key derived from a
\* secrets.yaml of the scanned tree and none of its contents.
C3_SecretsExcludedFromEveryScan ==
    ret.tag \in DirTags =>
        \A i \in 1..Len(ret.scanned) :
            basename(ret.scanned[i]) = SECRET_YAML
                => ~HoldsFile(ret.value, ret.scanned[i])

NotSecret(fname) == basename(fname) # SECRET_YAML

\* The positions of the loaded documents that are mappings and define key
Defining(docs, key) ==
    {i \in 1..Len(docs) : docs[i].v.kind = "map" /\ key \in Keys(docs[i].v.items)}

Max(S) == CHOOSE x \in S : \A y \in S : y <= x

Min(S) == CHOOSE x \in S : \A y \in S : x <= y

\* C4: !include_dir_merge_named returns one ordered mapping, the union of the
\* entries of the scanned files other than secrets.yaml that load as
\* mappings: every scanned file but secrets.yaml is loaded, in scan order; the
\* keys of the result are the keys of those mappings, each once, in the order
\* of the first file that defines them; a key carries the value of the last
\* file that defines it.
C4_MergeNamedIsUnionLaterWins ==
    ret.tag = "!include_dir_merge_named" =>
        LET docs == ret.docs
            keys == ret.value.items
        IN /\ ret.value.kind = "map"
           /\ [i \in 1..Len(docs) |-> docs[i].f] = SelectSeq(ret.scanned, NotSecret)
           /\ Keys(keys) = UNION {Keys(docs[i].v.items) :
                                    i \in {j \in 1..Len(docs) : docs[j].v.kind = "map"}}
           /\ Cardinality(Keys(keys)) = Len(keys)
           /\ \A i \in 1..Len(keys) :
                keys[i].v = GetItem(docs[Max(Defining(docs, keys[i].k))].v.items,
                                    keys[i].k)
           /\ \A i, j \in 1..Len(keys) :
                i < j => Min(Defining(docs, keys[i].k)) <= Min(Defining(docs, keys[j].k))

\* C4's case: a scan with a secrets.yaml in it, a key that two files define
\* with different values and a file that is no mapping
C4_Witness ==
    /\ ret.tag = "!include_dir_merge_named"
    /\ \E i \in 1..Len(ret.scanned) : ~NotSecret(ret.scanned[i])
    /\ \E i \in 1..Len(ret.docs) : ret.docs[i].v.kind # "map"
    /\ \E i \in 1..Len(ret.value.items) :
          /\ Cardinality(Defining(ret.docs, ret.value.items[i].k)) > 1
          /\ \E j \in Defining(ret.docs, ret.value.items[i].k) :
                GetItem(ret.docs[j].v.items, ret.value.items[i].k)
                    # ret.value.items[i].v

\* C5: load_yaml never returns null, to its caller or to a handler, and an
\* empty document loads as the empty ordered mapping.
C5_NeverReturnsNull ==
    /\ lret.fname # <<>> =>
          /\ lret.value.kind # "null"
          /\ lret.raw = "null" => lret.value = EmptyMap
    /\ status = "returned" => result.kind # "null"

\* C5's case: an empty document was loaded by a handler of a running load
C5_Witness ==
    /\ status = "running"
    /\ lret.raw = "null"
    /\ lret.value = EmptyMap

\* C6: a scan of a directory that is missing or cannot be read does not end
\* normally, and so no directory directive over such a directory returns.
C6_MissingDirectoryFails ==
    /\ scan.called => Listable(scan.directory)
    /\ ret.tag \in DirTags => Listable(ret.loc)

\* C7: whatever fails first in a load (a file that cannot be opened, decoded
\* or parsed, an undefined !env_var or !secret), the top-level call raises
\* EsphomeyamlError.
C7_FailureRaisesEsphomeyamlError ==
    (status = "raised" /\ cause \in {"io", "decode", "parse", "env", "secret"})
        => err = "EsphomeyamlError"

\* The key paths of the mapping entries of a tree whose value is null
RECURSIVE NullPaths(_, _)
NullPaths(node, path) ==
    UNION {LET p == Append(path, LineKey(node, i))
               v == node.items[i].v
           IN (IF node.kind = "map" /\ v.kind = "null" THEN {p} ELSE {})
              \cup NullPaths(v, p) : i \in 1..Len(node.items)}

\* C8: the output of dump has no line for a mapping entry whose value is
\* null, at any level of the tree.
C8_DumpOmitsNullEntries ==
    \A i \in 1..Len(out) : out[i].path \notin NullPaths(result, <<>>)

\* C9: no path a scan yields has, below the scanned directory, a component
\* that starts with a dot, whatever the pattern.
C9_ScanNeverYieldsHidden ==
    scan.called =>
        \A i \in 1..Len(scan.files) :
            LET f == scan.files[i]
                n == Len(scan.directory)
            IN /\ Len(f) > n
               /\ SubSeq(f, 1, n) = scan.directory
               /\ \A j \in (n + 1)..Len(f) : Head(f[j]) # "."

\* C9's case: a pattern that matches dot-names, over a directory that holds a
\* hidden file and a hidden directory, and the scan yields something
C9_Witness ==
    /\ scan.called
    /\ scan.directory = <<nA, nD>>
    /\ scan.pattern \in {<<"*">>, <<".", "*">>}
    /\ nHidden \in {Dirs[scan.directory].files[i] :
                        i \in 1..Len(Dirs[scan.directory].files)}
    /\ nGit \in {Dirs[scan.directory].dirs[i] :
                        i \in 1..Len(Dirs[scan.directory].dirs)}
    /\ scan.files # <<>>

\* C10: there is no cycle guard.  Once load_yaml is called on a file that an
\* active call is loading, the top-level call returns no tree and raises no
\* error but the host's when the nesting exhausts it, and the nesting does
\* grow to that point; the host's limit is reached by such loads only,
\* every load ends, and the load of A/r.yaml, whose includes form no cycle
\* and whose files are well formed, raises nothing (so it ends with a tree).
\* The host's limit is modelled as the interpreter's recursion limit, which a
\* chain of nested load_yaml calls meets before any other.
C10_NoCycleGuard ==
    /\ [](revisited => /\ status # "returned"
                       /\ status = "raised" => err = "RecursionError")
    /\ (revisited ~> (status = "raised" /\ err = "RecursionError"))
    /\ []((status = "raised" /\ err = "RecursionError") => revisited)
    /\ (status = "running" ~> status # "running")
    /\ []((name = root /\ root = <<nA, Y(<<"r">>)>>) => status # "raised")

\* C10's case: a file that includes itself has exhausted the host
C10_Witness ==
    /\ revisited
    /\ root = <<nA, Y(<<"s">>)>>
    /\ status = "raised"
    /\ err = "RecursionError"

====
